---- MODULE Spec2Model ----
(***************************************************************************)
(* Model of src/main.rs: the tokenizer (Tokenizer::next / parse_num), the  *)
(* one-token-lookahead stream Peekable<Tokenizer>, the flat evaluator      *)
(* (eval) and the precedence evaluator (fval).                             *)
(*                                                                         *)
(* A panic of the program is modelled as a result whose kind is the panic  *)
(* message; every caller hands a panicked result on unchanged, as an       *)
(* unwinding panic does.                                                   *)
(*                                                                         *)
(* i64 values: in the texts of the model every literal that converts and   *)
(* every intermediate value stays far below 2^31, so `+` and `*` are the   *)
(* exact integer operations there.  The one place where the width of i64   *)
(* is reached is parse::<i64>() of a long digit string, which is decided   *)
(* on the digit string itself (FitsI64), without computing its value.      *)
(***************************************************************************)
EXTENDS Integers, Sequences, FiniteSets

VARIABLES
    source,     \* the expression text handed to eval / fval (a sequence of chars)
    evalRes,    \* outcome of eval(source), NotRun before the call
    fvalRes,    \* outcome of fval(source), NotRun before the call
    chars,      \* Tokenizer.chars of a tokenizer driven directly: the unread chars
    emitted,    \* the Some(token) items that tokenizer has returned, in order
    nones,      \* how many times that tokenizer has returned None (capped)
    tokPanic    \* TRUE once a call of that tokenizer's next has panicked

vars == <<source, evalRes, fvalRes, chars, emitted, nones, tokPanic>>

---------------------------------------------------------------------------
(* Bounds of the model *)

\* longest text handed to the evaluators
MaxLen == 5

\* longest text handed to the tokenizer driven directly
MaxTokLen == 4

\* how many None results of a finished tokenizer are observed
MaxNones == 2

\* characters of the evaluator texts: two digits, the four symbols, a space
Alphabet == {"2", "3", "+", "*", "(", ")", " "}

\* characters of the tokenizer texts: digits (with 0), symbols, a space and
\* another ignorable character
TokAlphabet == {"0", "1", "9", "+", "*", "(", ")", " ", "x"}

---------------------------------------------------------------------------
(* Token *)

IntTok(n) == [tag |-> "Int", n |-> n]
Add == [tag |-> "Add"]
Mul == [tag |-> "Mul"]
LParen == [tag |-> "LParen"]
RParen == [tag |-> "RParen"]

\* Option::None of an Option<Token>
None == [tag |-> "None"]

\* the panic of buf.parse::<i64>().unwrap(), in the place of an item
ParseIntError == [tag |-> "ParseIntError"]

---------------------------------------------------------------------------
(* Tokenizer *)

Digits == {"0", "1", "2", "3", "4", "5", "6", "7", "8", "9"}

DigitVal(c) ==
    CASE c = "0" -> 0 [] c = "1" -> 1 [] c = "2" -> 2 [] c = "3" -> 3
      [] c = "4" -> 4 [] c = "5" -> 5 [] c = "6" -> 6 [] c = "7" -> 7
      [] c = "8" -> 8 [] c = "9" -> 9

\* i64::MAX = 9223372036854775807, as its decimal digits
I64MaxDigits ==
    <<9, 2, 2, 3, 3, 7, 2, 0, 3, 6, 8, 5, 4, 7, 7, 5, 8, 0, 7>>

RECURSIVE StripZeros(_)
StripZeros(buf) ==
    IF buf # <<>> /\ Head(buf) = "0" THEN StripZeros(Tail(buf)) ELSE buf

\* d <= e for two digit sequences of the same length
RECURSIVE DigitsLeq(_, _)
DigitsLeq(d, e) ==
    IF d = <<>> THEN TRUE
    ELSE IF DigitVal(Head(d)) < Head(e) THEN TRUE
    ELSE IF DigitVal(Head(d)) > Head(e) THEN FALSE
    ELSE DigitsLeq(Tail(d), Tail(e))

\* whether parse::<i64>() of the digit string buf is Ok: its value is at
\* most i64::MAX (leading zeros do not count)
FitsI64(buf) ==
    LET d == StripZeros(buf) IN
        \/ Len(d) < Len(I64MaxDigits)
        \/ Len(d) = Len(I64MaxDigits) /\ DigitsLeq(d, I64MaxDigits)

\* the value parse::<i64>() gives for a digit string that fits
RECURSIVE DecValue(_)
DecValue(buf) ==
    IF buf = <<>> THEN 0
    ELSE DecValue(SubSeq(buf, 1, Len(buf) - 1)) * 10 + DigitVal(buf[Len(buf)])

\* the while-let loop of parse_num: push and consume digits while the
\* peeked char is one; the char that ends the run stays unread
RECURSIVE parse_num_loop(_, _)
parse_num_loop(buf, cs) ==
    IF cs # <<>> /\ Head(cs) \in Digits
    THEN parse_num_loop(Append(buf, Head(cs)), Tail(cs))
    ELSE [buf |-> buf, chars |-> cs]

parse_num(first, cs) ==
    LET r == parse_num_loop(<<first>>, cs) IN
        [item |-> IF FitsI64(r.buf) THEN IntTok(DecValue(r.buf)) ELSE ParseIntError,
         chars |-> r.chars]

RECURSIVE next(_)

\* next ending the stream at a character that is no token
next_stopAtOther(cs) ==
    IF cs = <<>> THEN [item |-> None, chars |-> <<>>]
    ELSE LET c == Head(cs) IN
        CASE c = "+" -> [item |-> Add, chars |-> Tail(cs)]
          [] c = "*" -> [item |-> Mul, chars |-> Tail(cs)]
          [] c = "(" -> [item |-> LParen, chars |-> Tail(cs)]
          [] c = ")" -> [item |-> RParen, chars |-> Tail(cs)]
          [] c \in Digits -> parse_num(c, Tail(cs))
          [] OTHER -> [item |-> None, chars |-> Tail(cs)]

\* Tokenizer::next on the unread chars cs: the item returned and the chars
\* left unread
next(cs) ==
    IF cs = <<>> THEN [item |-> None, chars |-> <<>>]
    ELSE LET c == Head(cs) IN
        CASE c = "+" -> [item |-> Add, chars |-> Tail(cs)]
          [] c = "*" -> [item |-> Mul, chars |-> Tail(cs)]
          [] c = "(" -> [item |-> LParen, chars |-> Tail(cs)]
          [] c = ")" -> [item |-> RParen, chars |-> Tail(cs)]
          [] c \in Digits -> parse_num(c, Tail(cs))
          [] OTHER -> next(Tail(cs))

---------------------------------------------------------------------------
(* Peekable<Tokenizer>: peeked is <<>> (nothing peeked) or <<item>> *)

into_tokens(text) == [peeked |-> <<>>, chars |-> text]

\* tokens.peek(): the item, and the stream with the item kept in its slot
peek(ts) ==
    IF ts.peeked # <<>> THEN [item |-> ts.peeked[1], ts |-> ts]
    ELSE LET r == next(ts.chars) IN
        [item |-> r.item, ts |-> [peeked |-> <<r.item>>, chars |-> r.chars]]

\* tokens.next(): the item, and the stream without it
pnext(ts) ==
    IF ts.peeked # <<>>
    THEN [item |-> ts.peeked[1], ts |-> [peeked |-> <<>>, chars |-> ts.chars]]
    ELSE LET r == next(ts.chars) IN
        [item |-> r.item, ts |-> [peeked |-> <<>>, chars |-> r.chars]]

---------------------------------------------------------------------------
(* Results of the evaluators *)

NotRun == [kind |-> "NotRun"]

Ok(v, ts) == [kind |-> "Ok", val |-> v, ts |-> ts]

\* a panic with its message and the token the message prints (None when it
\* prints none)
Panic(msg, tok) == [kind |-> msg, tok |-> tok]

EndInOperand == "unexpected end of tokens evaluating operand"
EndInOperation == "unexpected end of tokens evaluating operation"
IllegalOperand == "illegal token in operand"
NotAnOperation == "is not an operation"
ParsePanic == "ParseIntError"

---------------------------------------------------------------------------
(* Flat evaluator *)
(* A local `let x = call(..)` whose value is used several times is written *)
(* LET k(x) == .. IN k(call(..)): the call is evaluated once.               *)

RECURSIVE eval_operand(_)
RECURSIVE eval_subexpr(_)
RECURSIVE eval_subexpr_loop(_, _)
RECURSIVE eval_operation(_, _)

\* eval_operand with the end of the stream read as the literal 0
eval_operand_endIsZero(ts) ==
    LET k(r) ==
            CASE r.item = ParseIntError -> Panic(ParsePanic, None)
              [] r.item = None -> Ok(0, r.ts)
              [] r.item.tag = "Int" -> Ok(r.item.n, r.ts)
              [] r.item = LParen -> eval_subexpr(r.ts)
              [] OTHER -> Panic(IllegalOperand, r.item)
    IN  k(pnext(ts))

eval_operand(ts) ==
    LET k(r) ==
            CASE r.item = ParseIntError -> Panic(ParsePanic, None)
              [] r.item = None -> Panic(EndInOperand, None)
              [] r.item.tag = "Int" -> Ok(r.item.n, r.ts)
              [] r.item = LParen -> eval_subexpr(r.ts)
              [] OTHER -> Panic(IllegalOperand, r.item)
    IN  k(pnext(ts))

eval_subexpr(ts) ==
    LET k(r) == IF r.kind # "Ok" THEN r ELSE eval_subexpr_loop(r.val, r.ts)
    IN  k(eval_operand(ts))

\* eval_subexpr's loop with the closing RParen peeked but not consumed
eval_subexpr_loop_keepRParen(current, ts) ==
    LET again(r) == IF r.kind # "Ok" THEN r ELSE eval_subexpr_loop(r.val, r.ts)
        k(p) ==
            CASE p.item = ParseIntError -> Panic(ParsePanic, None)
              [] p.item = None -> Ok(current, p.ts)
              [] p.item = RParen -> Ok(current, p.ts)
              [] OTHER -> again(eval_operation(current, p.ts))
    IN  k(peek(ts))

\* the while-let loop of eval_subexpr with its local `current`
eval_subexpr_loop(current, ts) ==
    LET again(r) == IF r.kind # "Ok" THEN r ELSE eval_subexpr_loop(r.val, r.ts)
        k(p) ==
            CASE p.item = ParseIntError -> Panic(ParsePanic, None)
              [] p.item = None -> Ok(current, p.ts)
              [] p.item = RParen -> Ok(current, pnext(p.ts).ts)
              [] OTHER -> again(eval_operation(current, p.ts))
    IN  k(peek(ts))

eval_operation(loper, ts) ==
    LET apply(operation, r) ==
            IF r.kind # "Ok" THEN r
            ELSE CASE operation = Add -> Ok(loper + r.val, r.ts)
                   [] operation = Mul -> Ok(loper * r.val, r.ts)
                   [] OTHER -> Panic(NotAnOperation, operation)
        k(o) ==
            CASE o.item = ParseIntError -> Panic(ParsePanic, None)
              [] o.item = None -> Panic(EndInOperation, None)
              [] OTHER -> apply(o.item, eval_operand(o.ts))
    IN  k(pnext(ts))

RECURSIVE _eval_loop(_, _)

\* _eval's loop with is_some() left out of its condition: the body runs
\* whatever the peek finds
_eval_loop_noPeek(current, ts) ==
    LET again(r) == IF r.kind # "Ok" THEN r ELSE _eval_loop(r.val, r.ts)
        k(p) ==
            CASE p.item = ParseIntError -> Panic(ParsePanic, None)
              [] OTHER -> again(eval_operation(current, p.ts))
    IN  k(peek(ts))

\* the while loop of _eval with its local `current`
_eval_loop(current, ts) ==
    LET again(r) == IF r.kind # "Ok" THEN r ELSE _eval_loop(r.val, r.ts)
        k(p) ==
            CASE p.item = ParseIntError -> Panic(ParsePanic, None)
              [] p.item = None -> Ok(current, p.ts)
              [] OTHER -> again(eval_operation(current, p.ts))
    IN  k(peek(ts))

_eval(ts) ==
    LET k(r) == IF r.kind # "Ok" THEN r ELSE _eval_loop(r.val, r.ts)
    IN  k(eval_operand(ts))

eval(expression) == _eval(into_tokens(expression))

---------------------------------------------------------------------------
(* Precedence evaluator *)

RECURSIVE fval_subexpr(_)
RECURSIVE fval_subexpr_loop(_, _)
RECURSIVE fval_loperand(_)
RECURSIVE fval_roperand(_)
RECURSIVE fval_addition(_, _)
RECURSIVE fval_operation(_, _)

fval_subexpr(ts) ==
    LET k(r) == IF r.kind # "Ok" THEN r ELSE fval_subexpr_loop(r.val, r.ts)
    IN  k(fval_loperand(ts))

\* fval_subexpr's loop with the end of the stream refused inside a group
fval_subexpr_loop_strict(current, ts) ==
    LET again(r) == IF r.kind # "Ok" THEN r ELSE fval_subexpr_loop(r.val, r.ts)
        k(p) ==
            CASE p.item = ParseIntError -> Panic(ParsePanic, None)
              [] p.item = None -> Panic(EndInOperation, None)
              [] p.item = RParen -> Ok(current, pnext(p.ts).ts)
              [] OTHER -> again(fval_operation(current, p.ts))
    IN  k(peek(ts))

\* the while-let loop of fval_subexpr with its local `current`
fval_subexpr_loop(current, ts) ==
    LET again(r) == IF r.kind # "Ok" THEN r ELSE fval_subexpr_loop(r.val, r.ts)
        k(p) ==
            CASE p.item = ParseIntError -> Panic(ParsePanic, None)
              [] p.item = None -> Ok(current, p.ts)
              [] p.item = RParen -> Ok(current, pnext(p.ts).ts)
              [] OTHER -> again(fval_operation(current, p.ts))
    IN  k(peek(ts))

fval_loperand(ts) ==
    LET k(r) ==
            CASE r.item = ParseIntError -> Panic(ParsePanic, None)
              [] r.item = None -> Panic(EndInOperand, None)
              [] r.item.tag = "Int" -> Ok(r.item.n, r.ts)
              [] r.item = LParen -> fval_subexpr(r.ts)
              [] OTHER -> Panic(IllegalOperand, r.item)
    IN  k(pnext(ts))

\* fval_roperand without the chain of additions: the immediate operand only
fval_roperand_noChain(ts) ==
    LET immediate(r) ==
            CASE r.item = ParseIntError -> Panic(ParsePanic, None)
              [] r.item = None -> Panic(EndInOperand, None)
              [] r.item.tag = "Int" -> Ok(r.item.n, r.ts)
              [] r.item = LParen -> fval_subexpr(r.ts)
              [] OTHER -> Panic(IllegalOperand, r.item)
    IN  immediate(pnext(ts))

fval_roperand(ts) ==
    LET immediate(r) ==
            CASE r.item = ParseIntError -> Panic(ParsePanic, None)
              [] r.item = None -> Panic(EndInOperand, None)
              [] r.item.tag = "Int" -> Ok(r.item.n, r.ts)
              [] r.item = LParen -> fval_subexpr(r.ts)
              [] OTHER -> Panic(IllegalOperand, r.item)
        chain(roper, p) ==
            CASE p.item = ParseIntError -> Panic(ParsePanic, None)
              [] p.item = Add -> fval_addition(roper, pnext(p.ts).ts)
              [] OTHER -> Ok(roper, p.ts)
        k(roper) ==
            IF roper.kind # "Ok" THEN roper
            ELSE chain(roper.val, peek(roper.ts))
    IN  k(immediate(pnext(ts)))

fval_addition(loper, ts) ==
    LET k(r) == IF r.kind # "Ok" THEN r ELSE Ok(loper + r.val, r.ts)
    IN  k(fval_roperand(ts))

fval_operation(loper, ts) ==
    LET apply(operation, r) ==
            IF r.kind # "Ok" THEN r
            ELSE CASE operation = Add -> Ok(loper + r.val, r.ts)
                   [] operation = Mul -> Ok(loper * r.val, r.ts)
                   [] OTHER -> Panic(NotAnOperation, operation)
        k(o) ==
            CASE o.item = ParseIntError -> Panic(ParsePanic, None)
              [] o.item = None -> Panic(EndInOperation, None)
              [] OTHER -> apply(o.item, fval_roperand(o.ts))
    IN  k(pnext(ts))

\* the while loop of _fval with its local `current`
RECURSIVE _fval_loop(_, _)
_fval_loop(current, ts) ==
    LET again(r) == IF r.kind # "Ok" THEN r ELSE _fval_loop(r.val, r.ts)
        k(p) ==
            CASE p.item = ParseIntError -> Panic(ParsePanic, None)
              [] p.item = None -> Ok(current, p.ts)
              [] OTHER -> again(fval_operation(current, p.ts))
    IN  k(peek(ts))

_fval(ts) ==
    LET k(r) == IF r.kind # "Ok" THEN r ELSE _fval_loop(r.val, r.ts)
    IN  k(fval_loperand(ts))

fval(line) == _fval(into_tokens(line))

---------------------------------------------------------------------------
(* The texts of the model *)

TextsOver(A, n) == UNION {[1..k -> A] : k \in 0..n}

\* 9223372036854775808 = i64::MAX + 1
I64MaxPlusOne ==
    <<"9", "2", "2", "3", "3", "7", "2", "0", "3", "6",
      "8", "5", "4", "7", "7", "5", "8", "0", "8">>

\* nineteen zeros and a 3: twenty digits whose value is 3
ZeroPadded3 ==
    <<"0", "0", "0", "0", "0", "0", "0", "0", "0", "0",
      "0", "0", "0", "0", "0", "0", "0", "0", "0", "3">>

\* texts with a literal of nineteen digits or more
LongLiteralTexts ==
    { I64MaxPlusOne,
      ZeroPadded3,
      <<"2", "+">> \o I64MaxPlusOne,
      <<"2", "*", " ">> \o ZeroPadded3,
      <<"(">> \o I64MaxPlusOne \o <<")">>,
      <<")">> \o I64MaxPlusOne }

EvalTexts == TextsOver(Alphabet, MaxLen) \cup LongLiteralTexts

TokTexts == TextsOver(TokAlphabet, MaxTokLen) \cup LongLiteralTexts

---------------------------------------------------------------------------
(* Reference reading of a text: its tokens by position, the grammar of     *)
(* spec section 4.2 and the two evaluation regimes of the glossary.  None  *)
(* of this is code of the program; the claims compare the program to it.   *)

Symbols == {"+", "*", "(", ")"}

\* a token starts at i: a symbol, or the first digit of a maximal digit run
IsStart(s, i) ==
    \/ s[i] \in Symbols
    \/ s[i] \in Digits /\ (i = 1 \/ s[i - 1] \notin Digits)

\* the last position of the maximal digit run that starts at i
RunEnd(s, i) ==
    CHOOSE j \in i..Len(s) :
        /\ \A k \in i..j : s[k] \in Digits
        /\ j = Len(s) \/ s[j + 1] \notin Digits

RefTokenAt(s, i) ==
    CASE s[i] = "+" -> [tag |-> "Add"]
      [] s[i] = "*" -> [tag |-> "Mul"]
      [] s[i] = "(" -> [tag |-> "LParen"]
      [] s[i] = ")" -> [tag |-> "RParen"]
      [] OTHER -> [tag |-> "Int", digits |-> SubSeq(s, i, RunEnd(s, i))]

RECURSIVE RefTokensFrom(_, _)
RefTokensFrom(s, i) ==
    IF i > Len(s) THEN <<>>
    ELSE (IF IsStart(s, i) THEN <<RefTokenAt(s, i)>> ELSE <<>>)
            \o RefTokensFrom(s, i + 1)

\* the tokens of text s: one per symbol and one per maximal digit run
RefTokens(s) == RefTokensFrom(s, 1)

RECURSIVE Pow10(_)
Pow10(k) == IF k = 0 THEN 1 ELSE 10 * Pow10(k - 1)

RECURSIVE RefValueFrom(_, _)
RefValueFrom(d, i) ==
    IF i > Len(d) THEN 0
    ELSE DigitVal(d[i]) * Pow10(Len(d) - i) + RefValueFrom(d, i + 1)

\* the decimal value of a digit string: the sum of digit * 10^place
RefValue(d) == RefValueFrom(StripZeros(d), 1)

\* the tags of the tokens of s
Tags(s) == LET t == RefTokens(s) IN [i \in 1..Len(t) |-> t[i].tag]

\* the tokens of s with the values of its literals
ValTokens(s) ==
    LET t == RefTokens(s) IN
        [i \in 1..Len(t) |->
            IF t[i].tag = "Int"
            THEN [tag |-> "Int", val |-> RefValue(t[i].digits)]
            ELSE t[i]]

\* every literal of s is at most i64::MAX
LiteralsFit(s) ==
    LET t == RefTokens(s) IN
        \A i \in 1..Len(t) : t[i].tag = "Int" => FitsI64(t[i].digits)

MinOf(S) == CHOOSE x \in S : \A y \in S : x <= y
MaxOf(S) == CHOOSE x \in S : \A y \in S : x >= y

\* operand (operator operand)* without parentheses, on tags
FlatOk(g) ==
    /\ Len(g) % 2 = 1
    /\ \A i \in 1..Len(g) :
        IF i % 2 = 1 THEN g[i] = "Int" ELSE g[i] \in {"Add", "Mul"}

\* the grammar expr := operand (operator operand)*, operand := Int | ( expr ),
\* on tags: the innermost group is an expr, and so is what is left with
\* that group taken as one operand
RECURSIVE WellFormed(_)
WellFormed(g) ==
    LET rp == {j \in 1..Len(g) : g[j] = "RParen"}
        lp == {i \in 1..Len(g) : g[i] = "LParen"}
    IN  IF rp = {} THEN lp = {} /\ FlatOk(g)
        ELSE LET j == MinOf(rp)
                 li == {i \in lp : i < j}
             IN  /\ li # {}
                 /\ LET i == MaxOf(li) IN
                        /\ FlatOk(SubSeq(g, i + 1, j - 1))
                        /\ WellFormed(SubSeq(g, 1, i - 1) \o <<"Int">>
                                        \o SubSeq(g, j + 1, Len(g)))

\* the parentheses opened and not closed
Depth(g) ==
    Cardinality({i \in 1..Len(g) : g[i] = "LParen"})
        - Cardinality({i \in 1..Len(g) : g[i] = "RParen"})

RParens(k) == [i \in 1..k |-> "RParen"]

\* g is well-formed once its open parentheses are closed at its end
Closable(g) == Depth(g) >= 0 /\ WellFormed(g \o RParens(Depth(g)))

\* strictly left to right, `+` and `*` alike: the last operator applies to
\* the fold of all before it
RECURSIVE FoldFlat(_)
FoldFlat(t) ==
    IF Len(t) = 1 THEN t[1].val
    ELSE LET l == FoldFlat(SubSeq(t, 1, Len(t) - 2))
             r == t[Len(t)].val
         IN  IF t[Len(t) - 1].tag = "Add" THEN l + r ELSE l * r

RECURSIVE SumOperands(_)
SumOperands(t) ==
    IF Len(t) = 1 THEN t[1].val
    ELSE t[1].val + SumOperands(SubSeq(t, 3, Len(t)))

\* every maximal chain of `+` is summed, the sums are multiplied
RECURSIVE FoldPrec(_)
FoldPrec(t) ==
    LET muls == {i \in 1..Len(t) : t[i].tag = "Mul"} IN
        IF muls = {} THEN SumOperands(t)
        ELSE LET m == MinOf(muls) IN
            SumOperands(SubSeq(t, 1, m - 1)) * FoldPrec(SubSeq(t, m + 1, Len(t)))

Fold(regime, t) == IF regime = "flat" THEN FoldFlat(t) ELSE FoldPrec(t)

\* the value of a well-formed token sequence: each innermost group is
\* folded to one operand, then the level around it
RECURSIVE RefEval(_, _)
RefEval(regime, t) ==
    LET rp == {j \in 1..Len(t) : t[j].tag = "RParen"} IN
        IF rp = {} THEN Fold(regime, t)
        ELSE LET j == MinOf(rp)
                 i == MaxOf({k \in 1..(j - 1) : t[k].tag = "LParen"})
                 v == Fold(regime, SubSeq(t, i + 1, j - 1))
             IN  RefEval(regime, SubSeq(t, 1, i - 1)
                                    \o <<[tag |-> "Int", val |-> v]>>
                                    \o SubSeq(t, j + 1, Len(t)))

\* text s with its open parentheses closed at its end
Closed(s) == s \o [i \in 1..Depth(Tags(s)) |-> ")"]

---------------------------------------------------------------------------
(* Well-formed texts, by the grammar, and their unclosed prefixes *)

\* longest well-formed text
MaxWfLen == 8

WfDigits == {"2", "3"}

RECURSIVE ExprsOfLen(_)
RECURSIVE OperandsOfLen(_)

OperandsOfLen(n) ==
    IF n < 1 THEN {}
    ELSE [1..n -> WfDigits]
            \cup {<<"(">> \o e \o <<")">> : e \in ExprsOfLen(n - 2)}

ExprsOfLen(n) ==
    IF n < 1 THEN {}
    ELSE OperandsOfLen(n)
            \cup UNION { {e \o <<op>> \o o :
                            e \in ExprsOfLen(i), op \in {"+", "*"},
                            o \in OperandsOfLen(n - 1 - i)} : i \in 1..(n - 2) }

\* the ")" at the end of w
RECURSIVE TrailingRParens(_)
TrailingRParens(w) ==
    IF w # <<>> /\ w[Len(w)] = ")"
    THEN 1 + TrailingRParens(SubSeq(w, 1, Len(w) - 1))
    ELSE 0

WfTexts ==
    UNION { {SubSeq(w, 1, Len(w) - j) : j \in 0..TrailingRParens(w)} :
                w \in UNION {ExprsOfLen(n) : n \in 1..MaxWfLen} }

---------------------------------------------------------------------------
(* The evaluators called on a text *)

Init ==
    /\ source \in EvalTexts
    /\ evalRes = NotRun
    /\ fvalRes = NotRun
    /\ chars = <<>>
    /\ emitted = <<>>
    /\ nones = 0
    /\ tokPanic = FALSE

\* a call of eval(source)
Eval ==
    /\ evalRes = NotRun
    /\ evalRes' = eval(source)
    /\ UNCHANGED <<source, fvalRes, chars, emitted, nones, tokPanic>>

\* a call of fval(source)
Fval ==
    /\ fvalRes = NotRun
    /\ fvalRes' = fval(source)
    /\ UNCHANGED <<source, evalRes, chars, emitted, nones, tokPanic>>

Next == Eval \/ Fval

Spec == Init /\ [][Next]_vars

\* the evaluators called on the well-formed texts and their unclosed prefixes
InitWF ==
    /\ source \in WfTexts
    /\ evalRes = NotRun
    /\ fvalRes = NotRun
    /\ chars = <<>>
    /\ emitted = <<>>
    /\ nones = 0
    /\ tokPanic = FALSE

SpecWF == InitWF /\ [][Next]_vars

---------------------------------------------------------------------------
(* Claims about the evaluators on well-formed texts (SpecWF) *)

\* C1: on a well-formed text whose values fit in i64, eval returns the value
\* of folding each parenthesis level strictly left to right, `+` and `*` at
\* equal precedence, every group reduced to one operand first.
C1_FlatFoldsLeftToRight ==
    (evalRes # NotRun /\ WellFormed(Tags(source)) /\ LiteralsFit(source))
        => /\ evalRes.kind = "Ok"
           /\ evalRes.val = RefEval("flat", ValTokens(source))

\* a group, both operators, and a value the other regime does not give
C1_Witness ==
    /\ evalRes # NotRun
    /\ WellFormed(Tags(source))
    /\ \E i \in 1..Len(source) : source[i] = "("
    /\ \E i \in 1..Len(source) : source[i] = "+"
    /\ \E i \in 1..Len(source) : source[i] = "*"
    /\ evalRes.kind = "Ok"
    /\ evalRes.val # RefEval("prec", ValTokens(source))

\* C2: on a well-formed text whose values fit in i64, fval returns the value
\* obtained by summing every maximal chain of `+` at each parenthesis level
\* and multiplying the sums.
C2_PrecSumsChainsFirst ==
    (fvalRes # NotRun /\ WellFormed(Tags(source)) /\ LiteralsFit(source))
        => /\ fvalRes.kind = "Ok"
           /\ fvalRes.val = RefEval("prec", ValTokens(source))

\* a product whose right factor is a chain of two additions
C2_Witness ==
    /\ fvalRes # NotRun
    /\ WellFormed(Tags(source))
    /\ \E i \in 1..(Len(source) - 4) :
        source[i] = "*" /\ source[i + 2] = "+" /\ source[i + 4] = "+"
    /\ fvalRes.kind = "Ok"
    /\ fvalRes.val # RefEval("flat", ValTokens(source))

\* C9: when the stream ends inside open groups where an operator or RParen
\* is expected, both evaluators return, without a panic, the value of the
\* same text with the missing RParens appended.
C9_UnclosedParensLenient ==
    (/\ evalRes # NotRun
     /\ fvalRes # NotRun
     /\ Depth(Tags(source)) > 0
     /\ Closable(Tags(source))
     /\ LiteralsFit(source))
        => /\ evalRes.kind = "Ok"
           /\ evalRes.val = eval(Closed(source)).val
           /\ evalRes.val = RefEval("flat", ValTokens(Closed(source)))
           /\ fvalRes.kind = "Ok"
           /\ fvalRes.val = fval(Closed(source)).val
           /\ fvalRes.val = RefEval("prec", ValTokens(Closed(source)))

\* two groups left open, with an operation in the inner one
C9_Witness ==
    /\ evalRes # NotRun
    /\ fvalRes # NotRun
    /\ Depth(Tags(source)) = 2
    /\ Closable(Tags(source))
    /\ Len(Tags(source)) >= 5
    /\ Tags(source)[Len(Tags(source))] = "Int"
    /\ evalRes.kind = "Ok"
    /\ fvalRes.kind = "Ok"

---------------------------------------------------------------------------
(* Claims about the evaluators on every text (Spec) *)

BothRun == evalRes # NotRun /\ fvalRes # NotRun

\* the token of a tag, as the panic messages print it
TokenOfTag(g) == [tag |-> g]

\* the literals among the first k tokens of s are at most i64::MAX
PrefixFits(s, k) ==
    LET t == RefTokens(s) IN
        \A i \in 1..k : t[i].tag = "Int" => FitsI64(t[i].digits)

\* after the tokens g an operand is required: at the start, after an
\* operator that follows a complete operand, after an LParen that stands
\* where an operand is required
RECURSIVE OperandPos(_)
OperandPos(g) ==
    \/ g = <<>>
    \/ /\ g # <<>>
       /\ LET front == SubSeq(g, 1, Len(g) - 1)
              last == g[Len(g)]
          IN  \/ last \in {"Add", "Mul"} /\ Closable(front)
              \/ last = "LParen" /\ OperandPos(front)

\* after the tokens g the next token is taken in operator position: g ends
\* with a complete operand, and the token does not close a group of g
OperatorPos(g, tok) ==
    /\ Closable(g)
    /\ ~(tok = "RParen" /\ Depth(g) > 0)

\* the condition of spec section 7 that a result stands for
Condition(kind) ==
    CASE kind = EndInOperand -> "UnexpectedEndOfInput"
      [] kind = EndInOperation -> "UnexpectedEndOfInput"
      [] kind = IllegalOperand -> "IllegalOperandToken"
      [] kind = NotAnOperation -> "IllegalOperatorToken"
      [] OTHER -> kind

\* C4: on every well-formed text, with digit strings of any length, both
\* evaluators return a value: no conversion of a digit string fails.
C4_TotalOnWellFormed ==
    (BothRun /\ WellFormed(Tags(source)))
        => evalRes.kind = "Ok" /\ fvalRes.kind = "Ok"

\* C5: a token taken in operator position that is neither Add nor Mul makes
\* both evaluators abort with IllegalOperatorToken on that token, whatever
\* follows it.
C5_BadOperatorIsIllegalOperator ==
    BothRun =>
        LET g == Tags(source) IN
            \A k \in 1..(Len(g) - 1) :
                (/\ PrefixFits(source, k)
                 /\ OperatorPos(SubSeq(g, 1, k), g[k + 1])
                 /\ g[k + 1] \notin {"Add", "Mul"})
                    => /\ evalRes.kind = NotAnOperation
                       /\ evalRes.tok.tag = g[k + 1]
                       /\ fvalRes.kind = NotAnOperation
                       /\ fvalRes.tok.tag = g[k + 1]

\* C6: where an operand is required, the end of the stream aborts both
\* evaluators with UnexpectedEndOfInput and an Add, Mul or RParen aborts
\* them with IllegalOperandToken on that token; so do an empty text, a text
\* of ignorable characters and a text that ends in an operator.
C6_OperandAborts ==
    BothRun =>
        LET g == Tags(source) IN
            \A k \in 0..Len(g) :
                (PrefixFits(source, k) /\ OperandPos(SubSeq(g, 1, k)))
                    => /\ k = Len(g)
                         => /\ evalRes = Panic(EndInOperand, None)
                            /\ fvalRes = Panic(EndInOperand, None)
                       /\ (k < Len(g) /\ g[k + 1] \in {"Add", "Mul", "RParen"})
                         => /\ evalRes = Panic(IllegalOperand, TokenOfTag(g[k + 1]))
                            /\ fvalRes = Panic(IllegalOperand, TokenOfTag(g[k + 1]))

\* a text that ends in an operator inside an open group
C6_Witness ==
    /\ BothRun
    /\ LET g == Tags(source) IN
        /\ Len(g) >= 3
        /\ g[Len(g)] \in {"Add", "Mul"}
        /\ g[1] = "LParen"
        /\ OperandPos(g)
    /\ evalRes.kind = EndInOperand
    /\ fvalRes.kind = EndInOperand

\* C7: on every text fval aborts exactly when eval aborts, with the same
\* condition on the same token.
C7_SameFatalConditions ==
    BothRun =>
        /\ Condition(evalRes.kind) = Condition(fvalRes.kind)
        /\ evalRes.kind # "Ok" => evalRes.tok = fvalRes.tok

\* s with a space put after its first i characters
InsertSpace(s, i) == SubSeq(s, 1, i) \o <<" ">> \o SubSeq(s, i + 1, Len(s))

\* position i of s is not inside a digit run
BetweenTokens(s, i) ==
    ~(i >= 1 /\ i < Len(s) /\ s[i] \in Digits /\ s[i + 1] \in Digits)

\* C8: a space put between two tokens, before the first or after the last
\* changes the outcome of neither evaluator (the texts hold spaces already,
\* so this covers any number of them).
C8_SpacesChangeNothing ==
    BothRun =>
        \A i \in 0..Len(source) :
            BetweenTokens(source, i)
                => /\ eval(InsertSpace(source, i)) = evalRes
                   /\ fval(InsertSpace(source, i)) = fvalRes

\* a text with spaces between its tokens that evaluates to a value
C8_Witness ==
    /\ BothRun
    /\ evalRes.kind = "Ok"
    /\ fvalRes.kind = "Ok"
    /\ Len(Tags(source)) >= 3
    /\ \E i \in 2..(Len(source) - 1) : source[i] = " "

\* C10: neither evaluator ever panics with "unexpected end of tokens
\* evaluating operation": an operator is taken only after a peek that found
\* a token.
C10_NoEndInOperation ==
    /\ evalRes.kind # EndInOperation
    /\ fvalRes.kind # EndInOperation

\* both loops have run to the end of the stream, one of them inside a group
C10_Witness ==
    /\ BothRun
    /\ evalRes.kind = "Ok"
    /\ fvalRes.kind = "Ok"
    /\ Len(Tags(source)) >= 5
    /\ Depth(Tags(source)) > 0
    /\ Tags(source)[1] = "Int"

---------------------------------------------------------------------------
(* A tokenizer driven directly, one call of next at a time *)

InitTok ==
    /\ source \in TokTexts
    /\ evalRes = NotRun
    /\ fvalRes = NotRun
    /\ chars = source
    /\ emitted = <<>>
    /\ nones = 0
    /\ tokPanic = FALSE

\* a call of next that returns Some(token)
NextSome ==
    /\ ~tokPanic
    /\ LET r == next(chars) IN
        /\ r.item \notin {None, ParseIntError}
        /\ emitted' = Append(emitted, r.item)
        /\ chars' = r.chars
    /\ UNCHANGED <<source, evalRes, fvalRes, nones, tokPanic>>

\* a call of next that returns None
NextNone ==
    /\ ~tokPanic
    /\ nones < MaxNones
    /\ LET r == next(chars) IN
        /\ r.item = None
        /\ chars' = r.chars
    /\ nones' = nones + 1
    /\ UNCHANGED <<source, evalRes, fvalRes, emitted, tokPanic>>

\* a call of next that panics in parse_num
NextPanic ==
    /\ ~tokPanic
    /\ next(chars).item = ParseIntError
    /\ tokPanic' = TRUE
    /\ UNCHANGED <<source, evalRes, fvalRes, chars, emitted, nones>>

NextTok == NextSome \/ NextNone \/ NextPanic

SpecTok == InitTok /\ [][NextTok]_vars

---------------------------------------------------------------------------
(* Claims about the tokenizer (SpecTok) *)

\* token tok of the program is the reference token ref
TokMatches(tok, ref) ==
    /\ tok.tag = ref.tag
    /\ ref.tag = "Int" => (FitsI64(ref.digits) /\ tok.n = RefValue(ref.digits))

\* what the calls so far have returned is the start of the reference tokens
EmittedIsPrefix ==
    /\ Len(emitted) <= Len(RefTokens(source))
    /\ \A i \in 1..Len(emitted) : TokMatches(emitted[i], RefTokens(source)[i])

\* C3: on every text the calls of next return, in order, one token per
\* symbol and one Int per maximal digit run with its value, nothing for any
\* other character, and then None.
C3_TokenizerYieldsRefTokens ==
    /\ ~tokPanic
    /\ EmittedIsPrefix
    /\ nones > 0 => (Len(emitted) = Len(RefTokens(source)) /\ chars = <<>>)

\* the same on the texts whose literals are at most i64::MAX
TokenizerRightWhenLiteralsFit ==
    LiteralsFit(source) => C3_TokenizerYieldsRefTokens

====
